---------------------------- MODULE Spec2Model ----------------------------
(***************************************************************************)
(* Model of class_voting_streamlit/app.py: a Streamlit application in      *)
(* which the sessions of a classroom share one Firebase store.             *)
(*                                                                         *)
(* Store:    /class_access_codes (the registry) and /classes/{code}.       *)
(* Session:  st.session_state of one browser session, and what its page    *)
(*           shows.                                                        *)
(* Action:   one user interaction = the widget callback (if any) followed  *)
(*           by the top-to-bottom run of main(), and by the run that       *)
(*           st.rerun() starts.                                            *)
(***************************************************************************)
EXTENDS Integers, Sequences, FiniteSets, TLC

VARIABLES
    apps,               \* firebase_admin._apps is non-empty (admin SDK in use)
    secrets,            \* st.secrets["teacher_password"], or NoSecret
    class_access_codes, \* the store at /class_access_codes
    classes,            \* the store at /classes/{class_code}
    session_state,      \* st.session_state of every session
    page,               \* what every session's page shows after its last run
    last,               \* the handler that ran last and the message it showed
    ret,                \* the value the last direct call of get_data returned
    results_df,         \* the rows the last observed Results View built
    dataframe,          \* the rows of the table it showed, in their order
    inflight            \* the store calls a running handler has still to make

vars == <<apps, secrets, class_access_codes, classes, session_state, page, last, ret,
          results_df, dataframe, inflight>>

---------------------------------------------------------------------------
(* Bounds and vocabulary *)

NumSessions == 1          \* browser sessions
MaxIdeas    == 2          \* scenarios a class holds at most
MaxVote     == 2          \* ratings a user picks: 0..MaxVote (of 0..MaxRating)
MaxList     == 3          \* longest legacy vote list in the initial store
MaxRating   == 5          \* the slider's options are 0..5

Sessions   == 1..NumSessions
Codes      == {"ETH101", "PHIL200"}       \* class codes a user types
NewCodes   == {"ETH101"}                  \* class codes a teacher creates
Names      == {"Student1"}                \* display names a user types
Voters     == {"Student1", "Student2"}    \* voters of the initial store of SpecRead
NameOrder  == <<"Student1", "Student2", "TeamA", "TeamB">>  \* key order of a votes object
Texts      == {"t1"}                      \* scenario texts a user types
ClassNames == {"Period 3"}
Passwords  == {"teacherpass", "s3cret"}
NoSecret   == "<none>"
Ratings    == 0..(IF MaxVote < MaxRating THEN MaxVote ELSE MaxRating)

---------------------------------------------------------------------------
(* Python values *)

EmptyDict == [x \in {} |-> 0]
\* A pop that empties the dict.
DictPopAll(d, k) == EmptyDict
DictSet(d, k, v) == [x \in (DOMAIN d) \cup {k} |-> IF x = k THEN v ELSE d[x]]
DictPop(d, k)    == [x \in (DOMAIN d) \ {k} |-> d[x]]

\* A VoteSet is a dict (keyed form) or a list (legacy form): isinstance(votes, list).
PyDict(d) == [dict |-> d]
PyList(l) == [list |-> l]
IsList(v) == "list" \in DOMAIN v
IsDict(v) == "dict" \in DOMAIN v

\* f"idea_{i}" and f"vote_slider_{i}", as the sequence of their '_'-separated parts.
IdeaKey(i)   == <<"idea", i>>
SliderKey(i) == <<"vote", "slider", i>>
\* The index of the first scenario, whatever the key.
FirstIndex(key) == 0 * Len(key)
\* int(slider_key.split('_')[-1])
LastPart(key) == key[Len(key)]

EmptyRecord == [ideas |-> <<>>, votes |-> EmptyDict]

\* for i, vote in enumerate(votes): object_votes[f"idea_{i}"] = vote
ObjectVotes(votes) ==
    [k \in {IdeaKey(i) : i \in 0..(Len(votes) - 1)} |-> votes[LastPart(k) + 1]]

---------------------------------------------------------------------------
(* Store faults: the outcome of one call to the store.                     *)
(*   "ok"      the call succeeds                                           *)
(*   "exc"     the call raises (transport failure, SDK exception)          *)
(*   "non200"  HTTP fallback only: a response whose status is not 200      *)
(*   "badjson" HTTP fallback only, reads: status 200, unparsable body      *)

ReadKinds(admin)  == IF admin THEN {"ok", "exc"} ELSE {"ok", "exc", "non200", "badjson"}
WriteKinds(admin) == IF admin THEN {"ok", "exc"} ELSE {"ok", "exc", "non200"}

\* The outcomes of a call of get_class_codes or save_data: either returns
\* the same on an exception, on a status other than 200 and on a body that
\* is not JSON.
CaughtKinds == {"ok", "exc"}

\* A read of a class: the outcome of the get, and of each voter's write-back.
ReadFaults(admin) == [rd : ReadKinds(admin), wb : [Voters -> WriteKinds(admin)]]
NoFault == [rd |-> "ok", wb |-> [n \in Voters |-> "ok"]]

\* votes_ref.set(v) / requests.put(.../votes/{voter}.json): one voter's path.
SetVotes(cls, c, voter, v) == [cls EXCEPT ![c].votes = DictSet(@, voter, v)]

\* The loop of get_data over data["votes"].items(), from the voters still to
\* visit: a list is converted in the returned data and written back.
RECURSIVE Migrate(_, _, _, _, _)
Migrate(voters, data, cls, c, wb) ==
    IF voters = <<>> THEN [raised |-> FALSE, data |-> data, classes |-> cls]
    ELSE LET voter == Head(voters) IN
         IF voter \notin DOMAIN data.votes \/ ~IsList(data.votes[voter])
         THEN Migrate(Tail(voters), data, cls, c, wb)
         ELSE LET object_votes == PyDict(ObjectVotes(data.votes[voter].list))
                  data2 == [data EXCEPT !.votes[voter] = object_votes]
              IN  IF wb[voter] = "exc"
                  THEN [raised |-> TRUE, data |-> data2, classes |-> cls]
                  ELSE Migrate(Tail(voters), data2,
                               IF wb[voter] = "ok"
                               THEN SetVotes(cls, c, voter, object_votes)
                               ELSE cls,      \* the PUT's status is not looked at
                               c, wb)

\* The try block of get_data: it raises, or returns a record.
GetDataTry(cls, c, flt) ==
    CASE flt.rd \in {"exc", "badjson"} ->
            [raised |-> TRUE, data |-> EmptyRecord, classes |-> cls]
      [] flt.rd = "non200" ->
            [raised |-> FALSE, data |-> EmptyRecord, classes |-> cls]
      [] OTHER -> Migrate(NameOrder, cls[c], cls, c, flt.wb)

\* The try block without its handler: what it raises reaches the caller.
ExceptReraise(t) ==
    [data |-> t.data, classes |-> t.classes, error |-> t.raised, raised |-> t.raised]

\* except Exception as e: st.error(...); return {"ideas": [], "votes": {}}
ExceptReturn(t) ==
    [data    |-> IF t.raised THEN EmptyRecord ELSE t.data,
     classes |-> t.classes,
     error   |-> t.raised,       \* st.error("Error retrieving data: ...")
     raised  |-> FALSE]

\* get_data(class_code)
GetData(cls, c, flt) == ExceptReturn(GetDataTry(cls, c, flt))

---------------------------------------------------------------------------
(* The gateway on a store that holds legacy lists                          *)

\* A key st.session_state does not hold.
Absent    == [nokey |-> TRUE]
HasKey(x) == "nokey" \notin DOMAIN x

NoSession == [authenticated |-> FALSE, class_code |-> "", student_name |-> "",
              current_votes |-> Absent, randomized_ideas |-> Absent,
              auto_save |-> FALSE]
NoPage    == [rows |-> FALSE]
NoRet     == [data |-> EmptyRecord, raised |-> FALSE, error |-> FALSE]
\* No handler of the session is running.
Idle      == [todo |-> <<>>, pending |-> <<>>, data |-> EmptyRecord, vote |-> <<>>,
              saved |-> FALSE]

\* An entry that does not name its submitter.
EntryUnknown(text, name, c) == [idea |-> text, submitted_by |-> "Unknown", origin |-> c]
Entry(text, name, c) == [idea |-> text, submitted_by |-> name, origin |-> c]

LegacyLists == UNION {[1..n -> Ratings] : n \in 1..MaxList}
\* What the store holds for the first voter, and for the second (<<>>: nothing).
LegacyVoteSets ==
    {PyList(l) : l \in LegacyLists} \cup {PyDict(ObjectVotes(<<1>>))}
OtherVoteSets ==
    {<<>>, PyList(<<1>>), PyList(<<0, 1>>), PyDict(ObjectVotes(<<1>>))}

InitRead ==
    /\ apps \in BOOLEAN
    /\ secrets = NoSecret
    /\ class_access_codes = [c \in {"ETH101"} |-> "Period 3"]
    /\ \E v1 \in LegacyVoteSets, v2 \in OtherVoteSets :
          classes = [c \in Codes |->
                        IF c = "ETH101"
                        THEN [ideas |-> <<Entry("t1", "Student1", "ETH101"),
                                          Entry("t1", "Student2", "ETH101")>>,
                              votes |-> IF v2 = <<>>
                                        THEN [n \in {"Student1"} |-> v1]
                                        ELSE [n \in Voters |->
                                                IF n = "Student1" THEN v1 ELSE v2]]
                        ELSE EmptyRecord]
    /\ session_state = [s \in Sessions |-> NoSession]
    /\ page = [s \in Sessions |-> NoPage]
    /\ last = [s |-> 0, op |-> "init", msg |-> ""]
    /\ ret = NoRet
    /\ results_df = <<>>
    /\ dataframe = <<>>
    /\ inflight = [s \in Sessions |-> Idle]

\* One call data = get_data(c) against the store.
ReadClass(c, flt) ==
    LET r == GetData(classes, c, flt)
    IN  /\ classes' = r.classes
        /\ ret' = [data |-> r.data, raised |-> r.raised, error |-> r.error]
        /\ last' = [s |-> 0, op |-> "get_data",
                    msg |-> IF r.error THEN "Error retrieving data" ELSE ""]
        /\ UNCHANGED <<apps, secrets, class_access_codes, session_state, page,
                       results_df, dataframe, inflight>>

NextRead == \E c \in Codes, flt \in ReadFaults(apps) : ReadClass(c, flt)

SpecRead == InitRead /\ [][NextRead]_vars

---------------------------------------------------------------------------
(* The other gateway functions                                             *)

\* The registry read without its failure handling.
GetClassCodesNoFail(reg, k) == reg

\* get_class_codes(): the registry, or {} when the read fails.
GetClassCodes(reg, k) == IF k = "ok" THEN reg ELSE EmptyDict

\* The password check without the secret: the fallback only.
GetTeacherPasswordFallback == "teacherpass"

\* get_teacher_password(): the secret, or the fallback.
GetTeacherPassword == IF secrets = NoSecret THEN "teacherpass" ELSE secrets

\* save_data(data, class_code): overwrites /classes/{class_code}; an
\* exception is caught inside, a status other than 200 gives False.
SaveData(cls, c, data, k) ==
    [classes |-> IF k = "ok" THEN [cls EXCEPT ![c] = data] ELSE cls,
     ok      |-> k = "ok"]

\* The write of one voter's path outside get_data: the admin branch catches
\* the exception, the requests.put of the fallback branch is not in a try.
PutVotes(admin, cls, c, voter, v, k) ==
    [classes |-> IF k = "ok" THEN SetVotes(cls, c, voter, v) ELSE cls,
     ok      |-> k = "ok",
     raised  |-> ~admin /\ k = "exc"]

\* A delete of the votes of every voter of the class.
DeleteAllVotes(admin, cls, c, voter, k) ==
    [classes |-> IF k = "ok" THEN [cls EXCEPT ![c].votes = EmptyDict] ELSE cls,
     ok      |-> k = "ok",
     raised  |-> ~admin /\ k = "exc"]

\* votes_ref.delete() / requests.delete(...): the same two branches.
DeleteVotes(admin, cls, c, voter, k) ==
    [classes |-> IF k = "ok" THEN [cls EXCEPT ![c].votes = DictPop(@, voter)] ELSE cls,
     ok      |-> k = "ok",
     raised  |-> ~admin /\ k = "exc"]

---------------------------------------------------------------------------
(* The run of main() for an authenticated session                          *)

\* The faults of the reads of a class the handlers make. A status other than
\* 200 and an unparsable body return what an exception returns (GetDataTry),
\* and no list is stored in any state of Spec (NoListStored), so no
\* write-back runs.
AppFaults == {NoFault, [rd |-> "exc", wb |-> [n \in Voters |-> "ok"]]}

\* random.shuffle: any order. A shuffle is given as a ranking of positions.
Perms(n)   == {p \in [1..n -> 1..n] : \A i, j \in 1..n : i # j => p[i] # p[j]}
Shuffles   == Perms(MaxIdeas)
Identity   == [i \in 1..MaxIdeas |-> i]
Shuffled(seq, sh) ==
    LET n == Len(seq)
        q == CHOOSE q \in Perms(n) : \A i, j \in 1..n : i < j => sh[q[i]] < sh[q[j]]
    IN  [i \in 1..n |-> seq[q[i]]]

\* ideas_with_indices = [(i, idea) for i, idea in enumerate(data["ideas"])]
IdeasWithIndices(ideas) == [i \in 1..Len(ideas) |-> <<i - 1, ideas[i]>>]

\* A legacy list as save_vote and the Voting View convert it: positions
\* below len(ideas) only.
ListVotes(votes, n) ==
    [k \in {IdeaKey(j) : j \in {x \in 0..(Len(votes) - 1) : x < n}} |-> votes[LastPart(k) + 1]]

\* st.session_state.current_votes when the key is missing.
InitialVotes(data, student_name) ==
    IF student_name \notin DOMAIN data.votes THEN EmptyDict
    ELSE IF IsDict(data.votes[student_name]) THEN data.votes[student_name].dict
    ELSE ListVotes(data.votes[student_name].list, Len(data.ideas))

\* The reads of lines 219 and 611 feed the page only; their effect on the
\* store is the write-back of get_data.
PageRead(cls, c) == GetData(cls, c, NoFault).classes

\* The caches filled on every run: the order is shuffled again.
CachedReshuffle(ss, data, sh) ==
    [ss EXCEPT !.current_votes =
                   IF HasKey(@) THEN @
                   ELSE PyDict(InitialVotes(data, ss.student_name)),
               !.randomized_ideas =
                   PyList(Shuffled(IdeasWithIndices(data.ideas), sh))]

\* The two caches of the Voting View: each is filled when its key is missing.
Cached(ss, data, sh) ==
    [ss EXCEPT !.current_votes =
                   IF HasKey(@) THEN @
                   ELSE PyDict(InitialVotes(data, ss.student_name)),
               !.randomized_ideas =
                   IF HasKey(@) THEN @
                   ELSE PyList(Shuffled(IdeasWithIndices(data.ideas), sh))]

\* The Voting View down to its rows, r being what get_data() returned.
VotingViewOf(ss, r, sh) ==
    IF ss.student_name = "" \/ r.data.ideas = <<>>
    THEN [ss |-> ss, classes |-> r.classes, rows |-> FALSE]
    ELSE [ss |-> Cached(ss, r.data, sh), classes |-> r.classes, rows |-> TRUE]

VotingView(ss, cls, flt, sh) ==
    VotingViewOf(ss, GetData(cls, ss.class_code, flt), sh)

\* The Results View after the Voting View v: data = get_data().
ResultsView(v, c) == [v EXCEPT !.classes = PageRead(@, c)]

\* One run of main() in which no widget fires.
Render(ss, cls, flt, sh) ==
    IF ~ss.authenticated
    THEN [ss |-> ss, classes |-> cls, rows |-> FALSE]          \* st.stop()
    ELSE ResultsView(VotingView(ss, PageRead(cls, ss.class_code), flt, sh),
                     ss.class_code)

\* updated_data["votes"][student_name] before the new rating is put in.
MyVotes(data, student_name) ==
    IF student_name \notin DOMAIN data.votes THEN EmptyDict
    ELSE IF IsList(data.votes[student_name])
         THEN ListVotes(data.votes[student_name].list, Len(data.ideas))
         ELSE data.votes[student_name].dict

\* if success: st.session_state.current_votes[idea_id] = rating; w: the write
VoteSaved(ss, w, idea_id, rating) ==
    [ss |-> IF w.ok
            THEN [ss EXCEPT !.current_votes = PyDict(DictSet(@.dict, idea_id, rating))]
            ELSE ss,
     classes |-> w.classes, ok |-> w.ok, raised |-> w.raised]

\* save_vote(idea_id, rating) of the session named student_name, r being
\* what its get_data() returned.
SaveVoteOf(admin, ss, r, student_name, idea_id, rating, k) ==
    VoteSaved(ss,
              PutVotes(admin, r.classes, ss.class_code, student_name,
                       PyDict(DictSet(MyVotes(r.data, student_name), idea_id, rating)),
                       k),
              idea_id, rating)

SaveVote(admin, ss, cls, student_name, idea_id, rating, flt, k) ==
    SaveVoteOf(admin, ss, GetData(cls, ss.class_code, flt), student_name,
               idea_id, rating, k)

\* if success: st.session_state.current_votes.pop(idea_key, None); w: the write
VoteRemoved(ss, w, idea_key) ==
    [ss |-> IF w.ok
            THEN [ss EXCEPT !.current_votes = PyDict(DictPop(@.dict, idea_key))]
            ELSE ss,
     classes |-> w.classes, tried |-> TRUE, ok |-> w.ok, raised |-> w.raised]

\* The removal of one vote (on_slider_change, and the Remove Vote button),
\* r being what its get_data() returned.
RemoveVoteOf(admin, ss, r, student_name, idea_key, k) ==
    IF student_name \in DOMAIN r.data.votes
       /\ idea_key \in DOMAIN r.data.votes[student_name].dict
    THEN VoteRemoved(ss,
                     PutVotes(admin, r.classes, ss.class_code, student_name,
                              PyDict(DictPop(r.data.votes[student_name].dict, idea_key)),
                              k),
                     idea_key)
    ELSE [ss |-> ss, classes |-> r.classes, tried |-> FALSE, ok |-> FALSE,
          raised |-> FALSE]

RemoveVote(admin, ss, cls, student_name, idea_key, flt, k) ==
    RemoveVoteOf(admin, ss, GetData(cls, ss.class_code, flt), student_name, idea_key, k)

---------------------------------------------------------------------------
(* The application: one action per user interaction. An action named       *)
(* ...With takes what the user typed and the outcomes of the store calls   *)
(* of the handler; the action without the suffix draws them from the       *)
(* vocabulary.                                                             *)

Init ==
    /\ \/ apps = TRUE /\ secrets = "s3cret"
       \/ apps = FALSE /\ secrets = NoSecret
    /\ class_access_codes = EmptyDict
    /\ classes = [c \in Codes |-> EmptyRecord]
    /\ session_state = [s \in Sessions |-> NoSession]
    /\ page = [s \in Sessions |-> NoPage]
    /\ last = [s |-> 0, op |-> "init", msg |-> ""]
    /\ ret = NoRet
    /\ results_df = <<>>
    /\ dataframe = <<>>
    /\ inflight = [s \in Sessions |-> Idle]

Uncaught == "<uncaught exception>"

\* The end of a handler of session s.
Finish(s, ss, cls, rows, op, msg) ==
    /\ session_state' = [session_state EXCEPT ![s] = ss]
    /\ classes' = cls
    /\ page' = [page EXCEPT ![s] = [rows |-> rows]]
    /\ last' = [s |-> s, op |-> op, msg |-> msg]
    /\ UNCHANGED <<apps, secrets, ret, results_df, dataframe, inflight>>

\* The handler ends with st.rerun(), or main() runs on to its end.
FinishRun(s, ss, cls, op, msg) ==
    \E flt \in AppFaults,
       sh \in (IF HasKey(ss.randomized_ideas) THEN {Identity} ELSE Shuffles) :
    \E v \in {Render(ss, cls, flt, sh)} :
        Finish(s, v.ss, v.classes, v.rows, op, msg)

\* "Join Class"; k: the outcome of the read of the registry
JoinClassWith(s, class_code, k) ==
    LET ss == session_state[s]
        class_codes == GetClassCodes(class_access_codes, k)
    IN  /\ ~ss.authenticated
        /\ UNCHANGED class_access_codes
        /\ \/ /\ class_code \in DOMAIN class_codes
              /\ FinishRun(s, [ss EXCEPT !.class_code = class_code,
                                         !.authenticated = TRUE],
                           classes, "Join Class", "Joined class")
           \/ /\ class_code \notin DOMAIN class_codes
              /\ Finish(s, ss, classes, FALSE, "Join Class",
                        "Invalid class code. Please try again.")

JoinClass(s) ==
    \E class_code \in Codes \cup {""}, k \in CaughtKinds :
        JoinClassWith(s, class_code, k)

\* "Create Class"; kr, kw, ks: the outcomes of the read of the registry, of
\* its write and of save_data
CreateClassWith(s, teacher_password, new_class_name, new_class_code, kr, kw, ks) ==
    LET ss == session_state[s]
        class_codes == DictSet(GetClassCodes(class_access_codes, kr),
                               new_class_code, new_class_name)
    IN  /\ ~ss.authenticated
        /\ \/ /\ teacher_password # GetTeacherPassword
              /\ UNCHANGED class_access_codes
              /\ Finish(s, ss, classes, FALSE, "Create Class",
                        "Incorrect teacher password")
           \/ /\ teacher_password = GetTeacherPassword
              /\ new_class_name = "" \/ new_class_code = ""
              /\ UNCHANGED class_access_codes
              /\ Finish(s, ss, classes, FALSE, "Create Class",
                        "Please provide both class name and code")
           \/ /\ teacher_password = GetTeacherPassword
              /\ new_class_name # "" /\ new_class_code # ""
              /\ \/ /\ kw = "ok"
                    /\ class_access_codes' = class_codes
                    /\ FinishRun(s, [ss EXCEPT !.class_code = new_class_code,
                                               !.authenticated = TRUE],
                                 SaveData(classes, new_class_code, EmptyRecord, ks).classes,
                                 "Create Class", "Created and joined class")
                 \/ /\ kw # "ok" /\ (apps \/ kw = "non200")
                    /\ UNCHANGED class_access_codes
                    /\ Finish(s, ss, classes, FALSE, "Create Class",
                              "Failed to create class. Please try again.")
                 \/ /\ ~apps /\ kw = "exc"     \* requests.put raises
                    /\ UNCHANGED class_access_codes
                    /\ Finish(s, ss, classes, FALSE, "Create Class", Uncaught)

\* The outcomes of the store calls of Create Class: there is none before
\* the two checks have passed.
CreateFaults(teacher_password, new_class_name, new_class_code) ==
    IF teacher_password = GetTeacherPassword /\ new_class_name # "" /\ new_class_code # ""
    THEN CaughtKinds \X WriteKinds(apps) \X CaughtKinds
    ELSE {<<"ok", "ok", "ok">>}

CreateClass(s) ==
    \E teacher_password \in Passwords,
       new_class_name \in ClassNames \cup {""},
       new_class_code \in NewCodes \cup {""} :
        \E f \in CreateFaults(teacher_password, new_class_name, new_class_code) :
            CreateClassWith(s, teacher_password, new_class_name, new_class_code,
                            f[1], f[2], f[3])

\* A logout that also deletes the caches of the Voting View.
SwitchClassReset(s) ==
    LET ss == session_state[s]
    IN  /\ ss.authenticated
        /\ UNCHANGED class_access_codes
        /\ Finish(s, [ss EXCEPT !.authenticated = FALSE, !.class_code = "",
                                !.current_votes = Absent, !.randomized_ideas = Absent],
                  PageRead(classes, ss.class_code), FALSE, "Switch Class", "")

\* A logout that keeps the class code.
SwitchClassKeepCode(s) ==
    LET ss == session_state[s]
    IN  /\ ss.authenticated
        /\ UNCHANGED class_access_codes
        /\ Finish(s, [ss EXCEPT !.authenticated = FALSE],
                  PageRead(classes, ss.class_code), FALSE, "Switch Class", "")

\* "Switch Class"
SwitchClass(s) ==
    LET ss == session_state[s]
    IN  /\ ss.authenticated
        /\ UNCHANGED class_access_codes
        /\ Finish(s, [ss EXCEPT !.authenticated = FALSE, !.class_code = ""],
                  PageRead(classes, ss.class_code), FALSE, "Switch Class", "")

\* "Reset All Data"; k: the outcome of save_data
ResetAllDataWith(s, teacher_password, k) ==
    LET ss == session_state[s]
    IN  /\ ss.authenticated
        /\ UNCHANGED class_access_codes
        /\ \E cls \in {PageRead(classes, ss.class_code)} :
            \/ /\ teacher_password # GetTeacherPassword
               /\ FinishRun(s, ss, cls, "Reset All Data", "Incorrect password")
            \/ /\ teacher_password = GetTeacherPassword
               /\ \E saved \in {SaveData(cls, ss.class_code, EmptyRecord, k)} :
                    FinishRun(s, ss, saved.classes, "Reset All Data",
                              IF saved.ok THEN "Data reset successfully!"
                              ELSE "Failed to reset data. Check Firebase connection.")

ResetAllData(s) ==
    \E teacher_password \in Passwords :
        \E k \in (IF teacher_password = GetTeacherPassword THEN CaughtKinds
                  ELSE {"ok"}) :
            ResetAllDataWith(s, teacher_password, k)

\* A change of "Your Name or Group Name:"
ChangeNameTo(s, student_name) ==
    LET ss == session_state[s]
    IN  /\ ss.authenticated
        /\ UNCHANGED class_access_codes
        /\ student_name # ss.student_name
        /\ FinishRun(s, [ss EXCEPT !.current_votes = Absent,
                                   !.randomized_ideas = Absent,
                                   !.student_name = student_name],
                     PageRead(classes, ss.class_code), "Change Name", "")

ChangeName(s) == \E student_name \in Names \cup {""} : ChangeNameTo(s, student_name)

\* "Submit Scenario"; flt, k: the outcomes of get_data and of save_data
SubmitScenarioWith(s, new_idea, flt, k) ==
    LET ss == session_state[s]
    IN  /\ ss.authenticated
        /\ UNCHANGED class_access_codes
        /\ \E r \in {GetData(PageRead(classes, ss.class_code), ss.class_code, flt)} :
            \/ /\ ss.student_name = ""
               /\ FinishRun(s, ss, r.classes, "Submit Scenario",
                            "Please enter your group name first!")
            \/ /\ ss.student_name # "" /\ new_idea = ""
               /\ FinishRun(s, ss, r.classes, "Submit Scenario",
                            "Please enter a scenario!")
            \/ /\ ss.student_name # "" /\ new_idea # ""
               /\ Len(r.data.ideas) < MaxIdeas
               /\ \E saved \in {SaveData(r.classes, ss.class_code,
                                          [r.data EXCEPT !.ideas =
                                              Append(@, Entry(new_idea, ss.student_name,
                                                              ss.class_code))],
                                          k)} :
                    FinishRun(s, ss, saved.classes, "Submit Scenario",
                              IF saved.ok THEN "Scenario submitted successfully!"
                              ELSE "Failed to submit scenario. Please try again.")

SubmitScenario(s) ==
    \E new_idea \in Texts \cup {""}, flt \in AppFaults, k \in CaughtKinds :
        SubmitScenarioWith(s, new_idea, flt, k)

\* A run with no effect of its own (a slider moved with auto-save off, a
\* click on a widget the run does not reach).
Refresh(s) ==
    /\ session_state[s].authenticated
    /\ UNCHANGED class_access_codes
    /\ FinishRun(s, session_state[s], classes, "Refresh", "")

\* The indices of the rows on the page of session s.
RowIndices(s) ==
    IF page[s].rows /\ HasKey(session_state[s].randomized_ideas)
    THEN {session_state[s].randomized_ideas.list[r][1] :
             r \in 1..Len(session_state[s].randomized_ideas.list)}
    ELSE {}

\* The run of a click in the Voting View, down to the rows: the click is
\* handled when this run shows the rows again (otherwise it is a Refresh).
Reached(s) ==
    VotingView(session_state[s],
               PageRead(classes, session_state[s].class_code), NoFault, Identity)

\* The rest of a run whose handler neither reran nor raised: the rows stay,
\* the Results View reads.
RunOn(s, ss, cls, op, msg) ==
    Finish(s, ss, PageRead(cls, ss.class_code), TRUE, op, msg)

\* A Submit Vote button that is never disabled.
ButtonNeverDisabled(cv, idea_id, new_rating) == FALSE

\* button_disabled = (new_rating == 0 or (idea_id in current_votes and
\*                    current_votes[idea_id] == new_rating))
ButtonDisabled(cv, idea_id, new_rating) ==
    IF new_rating = 0 THEN TRUE
    ELSE IF idea_id \in DOMAIN cv THEN cv[idea_id] = new_rating
    ELSE FALSE

\* if new_rating > 0: st.button("Submit Vote", disabled=button_disabled)
SubmitVoteEnabled(cv, idea_id, new_rating) ==
    new_rating > 0 /\ ~ButtonDisabled(cv, idea_id, new_rating)

\* else: if idea_id in current_votes: st.button("Remove Vote")
RemoveVoteOffered(cv, idea_id, new_rating) ==
    ~(new_rating > 0) /\ idea_id \in DOMAIN cv

\* The three ends of save_vote under "Submit Vote"
SubmitVoteEnd(s, sv) ==
    \/ /\ sv.raised
       /\ Finish(s, sv.ss, sv.classes, FALSE, "Submit Vote", Uncaught)
    \/ /\ sv.ok
       /\ FinishRun(s, sv.ss, sv.classes, "Submit Vote",
                    "Vote submitted for this scenario!")
    \/ /\ ~sv.ok /\ ~sv.raised
       /\ RunOn(s, sv.ss, sv.classes, "Submit Vote",
                "Failed to submit vote. Please try again.")

\* "Submit Vote" of the row of idea i, its slider at new_rating; flt, k: the
\* outcomes of get_data and of the write in save_vote
SubmitVoteWith(s, i, new_rating, flt, k) ==
    LET idea_id == IdeaKey(i)
    IN  /\ session_state[s].authenticated
        /\ i \in RowIndices(s)
        /\ ~session_state[s].auto_save
        /\ SubmitVoteEnabled(session_state[s].current_votes.dict, idea_id, new_rating)
        /\ UNCHANGED class_access_codes
        /\ \E v \in {Reached(s)} :
              /\ v.rows
              /\ SubmitVoteEnd(s, SaveVote(apps, v.ss, v.classes, v.ss.student_name,
                                           idea_id, new_rating, flt, k))

SubmitVote(s) ==
    \E i \in 0..(MaxIdeas - 1), new_rating \in Ratings,
       flt \in AppFaults, k \in WriteKinds(apps) :
        SubmitVoteWith(s, i, new_rating, flt, k)

\* The four ends of the removal under "Remove Vote"
RemoveVoteEnd(s, rm) ==
    \/ /\ rm.raised
       /\ Finish(s, rm.ss, rm.classes, FALSE, "Remove Vote", Uncaught)
    \/ /\ rm.tried /\ rm.ok
       /\ FinishRun(s, rm.ss, rm.classes, "Remove Vote", "Vote removed!")
    \/ /\ rm.tried /\ ~rm.ok /\ ~rm.raised
       /\ RunOn(s, rm.ss, rm.classes, "Remove Vote",
                "Failed to remove vote. Please try again.")
    \/ /\ ~rm.tried
       /\ RunOn(s, rm.ss, rm.classes, "Remove Vote", "")

\* "Remove Vote" of the row of idea i, its slider at 0
RemoveVoteAt(s, i, flt, k) ==
    LET idea_id == IdeaKey(i)
    IN  /\ session_state[s].authenticated
        /\ i \in RowIndices(s)
        /\ ~session_state[s].auto_save
        /\ RemoveVoteOffered(session_state[s].current_votes.dict, idea_id, 0)
        /\ UNCHANGED class_access_codes
        /\ \E v \in {Reached(s)} :
              /\ v.rows
              /\ RemoveVoteEnd(s, RemoveVote(apps, v.ss, v.classes, v.ss.student_name,
                                             idea_id, flt, k))

RemoveVoteButton(s) ==
    \E i \in 0..(MaxIdeas - 1), flt \in AppFaults, k \in WriteKinds(apps) :
        RemoveVoteAt(s, i, flt, k)

\* What on_slider_change does with the new value of a slider when auto-save
\* is on: if new_value > 0: (if idea_key not in current_votes or
\* current_votes[idea_key] != new_value: save_vote) elif idea_key in
\* current_votes: (the removal)
SliderAction(cv, idea_key, new_value) ==
    IF new_value > 0
    THEN IF idea_key \notin DOMAIN cv THEN "save"
         ELSE IF cv[idea_key] # new_value THEN "save" ELSE "none"
    ELSE IF idea_key \in DOMAIN cv THEN "remove" ELSE "none"

\* The end of on_slider_change, r being what save_vote or the removal gave
\* and toast the text of its st.toast; then the run of main().
SliderEnd(s, r, toast) ==
    \/ /\ r.raised
       /\ Finish(s, r.ss, r.classes, FALSE, "Slider", Uncaught)
    \/ /\ ~r.raised
       /\ FinishRun(s, r.ss, r.classes, "Slider", IF r.ok THEN toast ELSE "")

\* on_slider_change(key) with auto-save on, then the run of main(): the
\* slider of the row of idea i moved to new_value.
SliderChangeWith(s, i, new_value, flt, k) ==
    LET ss == session_state[s]
        slider_key == SliderKey(i)
        idx == LastPart(slider_key)
        idea_key == IdeaKey(idx)
        cv == ss.current_votes.dict
    IN  /\ ss.authenticated
        /\ i \in RowIndices(s)
        /\ ss.auto_save
        /\ UNCHANGED class_access_codes
        /\ \/ /\ SliderAction(cv, idea_key, new_value) = "save"
              /\ SliderEnd(s, SaveVote(apps, ss, classes, ss.student_name, idea_key,
                                       new_value, flt, k),
                           "Vote automatically saved")
           \/ /\ SliderAction(cv, idea_key, new_value) = "remove"
              /\ SliderEnd(s, RemoveVote(apps, ss, classes, ss.student_name, idea_key,
                                         flt, k),
                           "Vote removed")

SliderChange(s) ==
    \E i \in 0..(MaxIdeas - 1), new_value \in Ratings,
       flt \in AppFaults, k \in WriteKinds(apps) :
        SliderChangeWith(s, i, new_value, flt, k)

\* "Auto-save votes when slider changes"
ToggleAutoSave(s) ==
    /\ session_state[s].authenticated /\ page[s].rows
    /\ UNCHANGED class_access_codes
    /\ \E v \in {Reached(s)} :
          /\ v.rows
          /\ FinishRun(s, [session_state[s] EXCEPT !.auto_save = ~@], v.classes,
                       "Auto-save", "")

\* The three ends of "Clear All My Votes", v being the Voting View of the run
\* and del what the delete gave
ClearEnd(s, v, del) ==
    \/ /\ del.raised
       /\ Finish(s, v.ss, del.classes, FALSE, "Clear All My Votes", Uncaught)
    \/ /\ del.ok
       /\ FinishRun(s, [v.ss EXCEPT !.current_votes = PyDict(EmptyDict),
                                    !.randomized_ideas = Absent],
                    del.classes, "Clear All My Votes",
                    "All your votes have been cleared!")
    \/ /\ ~del.ok /\ ~del.raised
       /\ RunOn(s, v.ss, del.classes, "Clear All My Votes",
                "Failed to clear votes. Please try again.")

\* "Clear All My Votes"; k: the outcome of the delete
ClearAllVotesWith(s, k) ==
    /\ session_state[s].authenticated /\ page[s].rows
    /\ UNCHANGED class_access_codes
    /\ \E v \in {Reached(s)} :
          /\ v.rows
          /\ ClearEnd(s, v, DeleteVotes(apps, v.classes, v.ss.class_code,
                                        v.ss.student_name, k))

ClearAllVotes(s) == \E k \in WriteKinds(apps) : ClearAllVotesWith(s, k)

Next ==
    \E s \in Sessions :
        \/ JoinClass(s)
        \/ CreateClass(s)
        \/ SwitchClass(s)
        \/ ResetAllData(s)
        \/ ChangeName(s)
        \/ SubmitScenario(s)
        \/ Refresh(s)
        \/ SubmitVote(s)
        \/ RemoveVoteButton(s)
        \/ SliderChange(s)
        \/ ToggleAutoSave(s)
        \/ ClearAllVotes(s)

Spec == Init /\ [][Next]_vars

---------------------------------------------------------------------------
(* The Results View                                                        *)

\* The voters whose vote the loop over data["votes"].items() appends for the
\* scenario of index i, and the vote it appends.
CountedVoters(data, i) ==
    {voter \in DOMAIN data.votes :
        IF IsDict(data.votes[voter])
        THEN IdeaKey(i) \in DOMAIN data.votes[voter].dict
        ELSE i < Len(data.votes[voter].list)}

\* A vote counted as one, whatever its rating.
VoteOfOne(data, voter, i) == 1

VoteOf(data, voter, i) ==
    IF IsDict(data.votes[voter]) THEN data.votes[voter].dict[IdeaKey(i)]
    ELSE data.votes[voter].list[i + 1]

\* sum(votes)
RECURSIVE SumVotes(_, _, _)
SumVotes(voters, data, i) ==
    IF voters = {} THEN 0
    ELSE LET voter == CHOOSE v \in voters : TRUE
         IN  VoteOf(data, voter, i) + SumVotes(voters \ {voter}, data, i)

\* results: one row per scenario; avg_score is sum / num_votes, or 0 when
\* there is no vote.
Results(data) ==
    [n \in 1..Len(data.ideas) |->
        [idea_num     |-> n,
         idea         |-> data.ideas[n].idea,
         submitted_by |-> data.ideas[n].submitted_by,
         sum          |-> SumVotes(CountedVoters(data, n - 1), data, n - 1),
         num_votes    |-> Cardinality(CountedVoters(data, n - 1))]]

\* avg_score = sum(votes) / len(votes) if votes else 0, as a fraction
AvgScore(row) ==
    IF row.num_votes # 0 THEN <<row.sum, row.num_votes>> ELSE <<0, 1>>

\* The comparison of sort_values with ascending=True.
LowerScore(a, b) ==
    a.sum * (IF b.num_votes = 0 THEN 1 ELSE b.num_votes)
        < b.sum * (IF a.num_votes = 0 THEN 1 ELSE a.num_votes)

\* a.avg_score > b.avg_score, in integers
HigherScore(a, b) ==
    a.sum * (IF b.num_votes = 0 THEN 1 ELSE b.num_votes)
        > b.sum * (IF a.num_votes = 0 THEN 1 ELSE a.num_votes)

\* results_df['avg_score'].sum() of the first n rows, as a fraction
RECURSIVE ScoreSum(_, _)
ScoreSum(results, n) ==
    IF n = 0 THEN <<0, 1>>
    ELSE <<ScoreSum(results, n - 1)[1] * AvgScore(results[n])[2]
              + AvgScore(results[n])[1] * ScoreSum(results, n - 1)[2],
           ScoreSum(results, n - 1)[2] * AvgScore(results[n])[2]>>

\* not results_df.empty and results_df['avg_score'].sum() > 0: the table is
\* shown.
TableShown(results) ==
    Len(results) # 0 /\ ScoreSum(results, Len(results))[1] > 0

\* sort_values("avg_score", ascending=False): the orders of idea_num the
\* table can come in (rows of equal score in any order).
SortedOrders(results) ==
    {[r \in DOMAIN results |-> results[p[r]].idea_num] :
        p \in {q \in Perms(Len(results)) :
                 \A x, y \in DOMAIN results :
                    x < y => ~HigherScore(results[q[y]], results[q[x]])}}

\* "Students who have voted:"
Participation(data) ==
    {voter \in DOMAIN data.votes :
        IsDict(data.votes[voter]) /\ data.votes[voter].dict # EmptyDict}

\* data = get_data() of the Results View of a session of class c
ResultsData(c) == GetData(classes, c, NoFault).data

---------------------------------------------------------------------------
(* Two classes: a store in which a teacher has created both classes, one   *)
(* scenario submitted in each, and the interactions of a student who       *)
(* moves between them.                                                     *)

InitSwitch ==
    /\ \/ apps = TRUE /\ secrets = "s3cret"
       \/ apps = FALSE /\ secrets = NoSecret
    /\ class_access_codes = [c \in Codes |-> "Period 3"]
    /\ classes = [c \in Codes |->
                    [ideas |-> <<Entry("t1", "Student1", c)>>, votes |-> EmptyDict]]
    /\ session_state = [s \in Sessions |-> NoSession]
    /\ page = [s \in Sessions |-> NoPage]
    /\ last = [s |-> 0, op |-> "init", msg |-> ""]
    /\ ret = NoRet
    /\ results_df = <<>>
    /\ dataframe = <<>>
    /\ inflight = [s \in Sessions |-> Idle]

NextSwitch ==
    \E s \in Sessions :
        \/ JoinClass(s)
        \/ SwitchClass(s)
        \/ ChangeName(s)
        \/ Refresh(s)
        \/ SubmitVote(s)
        \/ ClearAllVotes(s)

SpecSwitch == InitSwitch /\ [][NextSwitch]_vars

---------------------------------------------------------------------------
(* One classroom session from an empty store, every store call succeeding: *)
(* the teacher creates ETH101, two teams submit a scenario each, two       *)
(* students rate.                                                          *)

E2ECode == "ETH101"

\* Who types which name next: <<the name shown, scenarios submitted, the new name>>
E2ENames ==
    {<<"", 0, "TeamA">>, <<"TeamA", 1, "TeamB">>, <<"TeamB", 2, "Student1">>}

\* Who submits what: <<name, scenarios submitted so far, text>>
E2EScenarios == {<<"TeamA", 0, "scenario 1">>, <<"TeamB", 1, "scenario 2">>}

\* Who rates what: <<name, index of the scenario, rating>>
E2ERatings == {<<"Student1", 0, 5>>, <<"Student1", 1, 1>>, <<"Student2", 0, 4>>}

\* The stored ratings of Student1 are complete.
E2EStudent1Rated ==
    /\ "Student1" \in DOMAIN classes[E2ECode].votes
    /\ IsDict(classes[E2ECode].votes["Student1"])
    /\ DOMAIN classes[E2ECode].votes["Student1"].dict = {IdeaKey(0), IdeaKey(1)}

E2ECreate ==
    CreateClassWith(1, GetTeacherPassword, "Period 3", E2ECode, "ok", "ok", "ok")

E2EEnterName ==
    \/ \E step \in E2ENames :
          /\ session_state[1].student_name = step[1]
          /\ Len(classes[E2ECode].ideas) = step[2]
          /\ ChangeNameTo(1, step[3])
    \/ /\ session_state[1].student_name = "Student1"
       /\ E2EStudent1Rated
       /\ ChangeNameTo(1, "Student2")

E2ESubmitScenario ==
    \E step \in E2EScenarios :
        /\ session_state[1].student_name = step[1]
        /\ Len(classes[E2ECode].ideas) = step[2]
        /\ SubmitScenarioWith(1, step[3], NoFault, "ok")

E2ERate ==
    \E step \in E2ERatings :
        /\ session_state[1].student_name = step[1]
        /\ SubmitVoteWith(1, step[2], step[3], NoFault, "ok")

NextE2E ==
    \/ E2ECreate
    \/ E2EEnterName
    \/ E2ESubmitScenario
    \/ E2ERate
    \/ Refresh(1)

SpecE2E == Init /\ [][NextE2E]_vars

---------------------------------------------------------------------------
(* The Results View on any class record: the store holds one class with    *)
(* any votes, keyed or legacy, and the Results View is run on it.          *)

\* results_df = pd.DataFrame(results): idea_num, avg_score, num_votes
ResultsFrame(data) ==
    [n \in DOMAIN Results(data) |->
        [idea_num  |-> Results(data)[n].idea_num,
         avg_score |-> AvgScore(Results(data)[n]),
         num_votes |-> Results(data)[n].num_votes]]

ResultVoters  == {"Student1", "Student2", "TeamA"}
ResultRatings == {0, 4, 5}
ResultKeys    == {IdeaKey(0), IdeaKey(1)}
\* What the store holds for a voter: nothing (<<>>), a keyed VoteSet, a list.
KeyedVoteSets ==
    {PyDict(d) : d \in UNION {[K -> ResultRatings] : K \in SUBSET ResultKeys}}
ResultVoteSets == {<<>>} \cup KeyedVoteSets \cup {PyList(<<4>>), PyList(<<0, 5>>)}
ThirdVoteSets  == {<<>>, PyDict(EmptyDict), PyDict([k \in {IdeaKey(1)} |-> 5])}
ResultIdeas ==
    {<<>>, <<Entry("t1", "TeamA", "ETH101")>>,
     <<Entry("t1", "TeamA", "ETH101"), Entry("t1", "TeamB", "ETH101")>>}

InitResults ==
    /\ \/ apps = TRUE /\ secrets = "s3cret"
       \/ apps = FALSE /\ secrets = NoSecret
    /\ class_access_codes = [c \in {"ETH101"} |-> "Period 3"]
    /\ \E ideas \in ResultIdeas, v1 \in ResultVoteSets, v2 \in ResultVoteSets,
          v3 \in ThirdVoteSets :
          classes = [c \in Codes |->
                        IF c = "ETH101"
                        THEN [ideas |-> ideas,
                              votes |-> [n \in {x \in ResultVoters :
                                                   \/ x = "Student1" /\ v1 # <<>>
                                                   \/ x = "Student2" /\ v2 # <<>>
                                                   \/ x = "TeamA" /\ v3 # <<>>} |->
                                            IF n = "Student1" THEN v1
                                            ELSE IF n = "Student2" THEN v2 ELSE v3]]
                        ELSE EmptyRecord]
    /\ session_state = [s \in Sessions |-> NoSession]
    /\ page = [s \in Sessions |-> NoPage]
    /\ last = [s |-> 0, op |-> "init", msg |-> ""]
    /\ ret = NoRet
    /\ results_df = <<>>
    /\ dataframe = <<>>
    /\ inflight = [s \in Sessions |-> Idle]

\* The Results View of a session of class c: data = get_data(), the loop
\* over data["ideas"], the DataFrame.
ViewResults(c, flt) ==
    \E r \in {GetData(classes, c, flt)} :
        /\ classes' = r.classes
        /\ ret' = [data |-> r.data, raised |-> r.raised, error |-> r.error]
        /\ results_df' = ResultsFrame(r.data)
        /\ IF TableShown(Results(r.data))
           THEN \E order \in SortedOrders(Results(r.data)) :
                   dataframe' = [k \in DOMAIN order |-> ResultsFrame(r.data)[order[k]]]
           ELSE dataframe' = <<>>
        /\ last' = [s |-> 0, op |-> "Results",
                    msg |-> IF r.data.ideas = <<>>
                            THEN "No scenarios have been submitted yet!"
                            ELSE IF TableShown(Results(r.data)) THEN ""
                            ELSE "No votes have been submitted yet!"]
        /\ UNCHANGED <<apps, secrets, class_access_codes, session_state, page, inflight>>

NextResults == \E c \in Codes, flt \in ReadFaults(apps) : ViewResults(c, flt)

SpecResults == InitResults /\ [][NextResults]_vars

---------------------------------------------------------------------------
(* Two sessions at the granularity of the store calls: a run of main() is  *)
(* the sequence of its calls of the store, and the calls of the two        *)
(* sessions interleave. A call of get_data is its get followed by one      *)
(* write-back for every voter the get returned as a list.                  *)

RaceCode  == "ETH101"
RaceNames == <<"Student1", "Student2">>     \* the name each session types
RaceSessions == DOMAIN RaceNames

\* The calls of get_data of one run of main(): lines 219, 330 and 611.
RunScript   == <<"get_data", "voting_view", "results">>
\* A change of the name: the read of line 219, lines 249-256, the rerun.
NameScript  == <<"get_data", "name">> \o RunScript
\* "Submit Vote": the reads of lines 219 and 330, save_vote (its get_data
\* and its write), the rerun.
ClickScript == <<"get_data", "voting_view", "save_vote", "put">> \o RunScript
\* "Submit Scenario": the read of line 219, the get_data of the handler
\* (line 278), save_data, the rerun.
SubmitScript == <<"get_data", "submit_scenario", "save_data">> \o RunScript
ReadOps     == {"get_data", "voting_view", "save_vote", "results", "submit_scenario"}

RaceVoteSets == {<<>>, PyList(<<1>>), PyDict(ObjectVotes(<<1>>))}

InitRace ==
    /\ \/ apps = TRUE /\ secrets = "s3cret"
       \/ apps = FALSE /\ secrets = NoSecret
    /\ class_access_codes = [c \in {RaceCode} |-> "Period 3"]
    /\ \E v1 \in RaceVoteSets, v2 \in RaceVoteSets :
          classes = [c \in Codes |->
                        IF c = RaceCode
                        THEN [ideas |-> <<Entry("t1", "TeamA", RaceCode),
                                          Entry("t1", "TeamB", RaceCode)>>,
                              votes |-> [n \in {x \in Voters :
                                                   \/ x = "Student1" /\ v1 # <<>>
                                                   \/ x = "Student2" /\ v2 # <<>>} |->
                                            IF n = "Student1" THEN v1 ELSE v2]]
                        ELSE EmptyRecord]
    /\ session_state = [s \in RaceSessions |-> NoSession]
    /\ page = [s \in RaceSessions |-> NoPage]
    /\ last = [s |-> 0, op |-> "init", msg |-> ""]
    /\ ret = NoRet
    /\ results_df = <<>>
    /\ dataframe = <<>>
    /\ inflight = [s \in RaceSessions |-> Idle]

\* One step of the run of session s.
RaceEnd(s, ss, cls, rows, calls, op, msg) ==
    /\ session_state' = [session_state EXCEPT ![s] = ss]
    /\ classes' = cls
    /\ page' = [page EXCEPT ![s] = [rows |-> rows]]
    /\ inflight' = [inflight EXCEPT ![s] = calls]
    /\ last' = [s |-> s, op |-> op, msg |-> msg]
    /\ UNCHANGED <<apps, secrets, class_access_codes, ret, results_df, dataframe>>

\* "Join Class" with the code of the class, the registry read succeeding;
\* st.rerun() starts the run.
RaceJoin(s) ==
    /\ ~session_state[s].authenticated /\ inflight[s].todo = <<>>
    /\ RaceEnd(s, [session_state[s] EXCEPT !.class_code = RaceCode,
                                          !.authenticated = TRUE],
               classes, FALSE, [inflight[s] EXCEPT !.todo = RunScript],
               "Join Class", "Joined class")

\* The session types its name: the run the change starts.
RaceTypeName(s) ==
    /\ session_state[s].authenticated /\ inflight[s].todo = <<>>
    /\ session_state[s].student_name = ""
    /\ RaceEnd(s, session_state[s], classes, FALSE,
               [inflight[s] EXCEPT !.todo = NameScript], "Change Name", "")

\* Lines 249-256: the caches are deleted, the name is kept, st.rerun().
RaceSetName(s) ==
    /\ inflight[s].todo # <<>> /\ Head(inflight[s].todo) = "name"
    /\ RaceEnd(s, [session_state[s] EXCEPT !.current_votes = Absent,
                                          !.randomized_ideas = Absent,
                                          !.student_name = RaceNames[s]],
               classes, FALSE, [inflight[s] EXCEPT !.todo = Tail(@)],
               "Change Name", "")

\* The voters get_data has to write back: those the get returned as a list.
ListsOf(data) ==
    SelectSeq(NameOrder, LAMBDA n : n \in DOMAIN data.votes /\ IsList(data.votes[n]))

\* The end of a call of get_data that returns data: the Voting View fills
\* the caches after the read of line 330.
ReadDone(s, data, cls, sh) ==
    \E v \in {IF Head(inflight[s].todo) = "voting_view"
              THEN VotingViewOf(session_state[s], [data |-> data, classes |-> cls], sh)
              ELSE [ss |-> session_state[s], classes |-> cls, rows |-> page[s].rows]} :
        RaceEnd(s, v.ss, cls, v.rows,
                [inflight[s] EXCEPT !.todo = Tail(@), !.pending = <<>>, !.data = data],
                Head(inflight[s].todo), "")

\* The get of a call of get_data: ref.get() / requests.get(...)
RaceGet(s) ==
    /\ inflight[s].todo # <<>> /\ Head(inflight[s].todo) \in ReadOps
    /\ inflight[s].pending = <<>>
    /\ \E data \in {classes[session_state[s].class_code]} :
          IF ListsOf(data) = <<>>
          THEN \E sh \in (IF HasKey(session_state[s].randomized_ideas) THEN {Identity}
                          ELSE Shuffles) :
                  ReadDone(s, data, classes, sh)
          ELSE RaceEnd(s, session_state[s], classes, page[s].rows,
                       [inflight[s] EXCEPT !.pending = ListsOf(data), !.data = data],
                       Head(inflight[s].todo), "")

\* One write-back of get_data: the list the get returned for the voter,
\* converted, is written to the voter's path.
RaceWriteBack(s) ==
    /\ inflight[s].pending # <<>>
    /\ \E voter \in {Head(inflight[s].pending)} :
       \E object_votes \in {PyDict(ObjectVotes(inflight[s].data.votes[voter].list))} :
       \E data \in {[inflight[s].data EXCEPT !.votes[voter] = object_votes]} :
       \E cls \in {SetVotes(classes, session_state[s].class_code, voter, object_votes)} :
          IF Tail(inflight[s].pending) = <<>>
          THEN \E sh \in (IF HasKey(session_state[s].randomized_ideas) THEN {Identity}
                          ELSE Shuffles) :
                  ReadDone(s, data, cls, sh)
          ELSE RaceEnd(s, session_state[s], cls, page[s].rows,
                       [inflight[s] EXCEPT !.pending = Tail(@), !.data = data],
                       Head(inflight[s].todo), "")

\* "Submit Vote" of the row of idea i with the slider at new_rating: the run
\* the click starts. A session votes once.
RaceClick(s, i, new_rating) ==
    /\ session_state[s].authenticated /\ inflight[s].todo = <<>>
    /\ ~inflight[s].saved
    /\ i \in RowIndices(s)
    /\ ~session_state[s].auto_save
    /\ SubmitVoteEnabled(session_state[s].current_votes.dict, IdeaKey(i), new_rating)
    /\ RaceEnd(s, session_state[s], classes, page[s].rows,
               [inflight[s] EXCEPT !.todo = ClickScript, !.vote = <<i, new_rating>>],
               "Submit Vote", "")

\* The write of save_vote, succeeding, with the data its get_data returned.
RacePut(s) ==
    /\ inflight[s].todo # <<>> /\ Head(inflight[s].todo) = "put"
    /\ \E sv \in {SaveVoteOf(apps, session_state[s],
                             [data |-> inflight[s].data, classes |-> classes],
                             session_state[s].student_name,
                             IdeaKey(inflight[s].vote[1]), inflight[s].vote[2], "ok")} :
          RaceEnd(s, sv.ss, sv.classes, page[s].rows,
                  [inflight[s] EXCEPT !.todo = Tail(@), !.saved = TRUE],
                  "Submit Vote", "Vote submitted for this scenario!")

NextRace ==
    \E s \in RaceSessions :
        \/ RaceJoin(s)
        \/ RaceTypeName(s)
        \/ RaceSetName(s)
        \/ RaceGet(s)
        \/ RaceWriteBack(s)
        \/ \E i \in 0..(MaxIdeas - 1), new_rating \in Ratings : RaceClick(s, i, new_rating)
        \/ RacePut(s)

SpecRace == InitRace /\ [][NextRace]_vars

---------------------------------------------------------------------------
(* A scenario submitted while another session votes: the class holds one   *)
(* scenario and keyed votes, and the calls of the store of a Submit        *)
(* Scenario interleave with those of a Submit Vote.                        *)

SubmitVoteSets == {<<>>, PyDict(ObjectVotes(<<1>>))}

InitSubmit ==
    /\ \/ apps = TRUE /\ secrets = "s3cret"
       \/ apps = FALSE /\ secrets = NoSecret
    /\ class_access_codes = [c \in {RaceCode} |-> "Period 3"]
    /\ \E v1 \in SubmitVoteSets, v2 \in SubmitVoteSets :
          classes = [c \in Codes |->
                        IF c = RaceCode
                        THEN [ideas |-> <<Entry("t1", "TeamA", RaceCode)>>,
                              votes |-> [n \in {x \in Voters :
                                                   \/ x = "Student1" /\ v1 # <<>>
                                                   \/ x = "Student2" /\ v2 # <<>>} |->
                                            IF n = "Student1" THEN v1 ELSE v2]]
                        ELSE EmptyRecord]
    /\ session_state = [s \in RaceSessions |-> NoSession]
    /\ page = [s \in RaceSessions |-> NoPage]
    /\ last = [s |-> 0, op |-> "init", msg |-> ""]
    /\ ret = NoRet
    /\ results_df = <<>>
    /\ dataframe = <<>>
    /\ inflight = [s \in RaceSessions |-> Idle]

\* "Submit Scenario" with a text, the name typed: the run the click starts.
RaceSubmit(s) ==
    /\ session_state[s].authenticated /\ inflight[s].todo = <<>>
    /\ session_state[s].student_name # ""
    /\ Len(classes[session_state[s].class_code].ideas) < MaxIdeas
    /\ RaceEnd(s, session_state[s], classes, page[s].rows,
               [inflight[s] EXCEPT !.todo = SubmitScript], "Submit Scenario", "")

\* data["ideas"].append({...}); save_data(data, class_code), succeeding, with
\* the data the get_data of the handler returned.
RaceSave(s) ==
    /\ inflight[s].todo # <<>> /\ Head(inflight[s].todo) = "save_data"
    /\ \E saved \in {SaveData(classes, session_state[s].class_code,
                              [inflight[s].data EXCEPT !.ideas =
                                  Append(@, Entry("t1", session_state[s].student_name,
                                                  session_state[s].class_code))],
                              "ok")} :
          RaceEnd(s, session_state[s], saved.classes, page[s].rows,
                  [inflight[s] EXCEPT !.todo = Tail(@)],
                  "Submit Scenario", "Scenario submitted successfully!")

NextSubmit ==
    \E s \in RaceSessions :
        \/ RaceJoin(s)
        \/ RaceTypeName(s)
        \/ RaceSetName(s)
        \/ RaceGet(s)
        \/ \E i \in 0..(MaxIdeas - 1), new_rating \in Ratings : RaceClick(s, i, new_rating)
        \/ RacePut(s)
        \/ RaceSubmit(s)
        \/ RaceSave(s)

SpecSubmit == InitSubmit /\ [][NextSubmit]_vars

---------------------------------------------------------------------------
(* Class creation on a store that already holds two classes: the login     *)
(* page of a session, and its way back to it.                              *)

NextCreate ==
    \E s \in Sessions :
        \/ JoinClass(s)
        \/ CreateClass(s)
        \/ SwitchClass(s)
        \/ ChangeName(s)

SpecCreate == InitSwitch /\ [][NextCreate]_vars

---------------------------------------------------------------------------
(* A class in use: the first class holds two scenarios and the votes of    *)
(* Student2, and in some stores votes of Student1; the second class holds  *)
(* one scenario. A student joins, votes and clears. Every vote set of the  *)
(* store is an object: the reads of earlier runs have converted the lists. *)

ClearVoteSets ==
    {[n \in {"Student2"} |-> PyDict(ObjectVotes(<<1>>))],
     [n \in {"Student1", "Student2"} |-> PyDict(ObjectVotes(<<1, 2>>))]}

InitClear ==
    /\ \/ apps = TRUE /\ secrets = "s3cret"
       \/ apps = FALSE /\ secrets = NoSecret
    /\ class_access_codes = [c \in Codes |-> "Period 3"]
    /\ \E v \in ClearVoteSets :
          classes = [c \in Codes |->
                       IF c = "ETH101"
                       THEN [ideas |-> <<Entry("t1", "Student2", c),
                                         Entry("t2", "Student2", c)>>,
                             votes |-> v]
                       ELSE [ideas |-> <<Entry("t1", "Student2", c)>>,
                             votes |-> EmptyDict]]
    /\ session_state = [s \in Sessions |-> NoSession]
    /\ page = [s \in Sessions |-> NoPage]
    /\ last = [s |-> 0, op |-> "init", msg |-> ""]
    /\ ret = NoRet
    /\ results_df = <<>>
    /\ dataframe = <<>>
    /\ inflight = [s \in Sessions |-> Idle]

SpecClear == InitClear /\ [][NextSwitch]_vars

---------------------------------------------------------------------------
(* Claims about the gateway (SpecRead)                                     *)

ListVoters(c) == {v \in DOMAIN classes[c].votes : IsList(classes[c].votes[v])}

\* The keyed form of a list with its zero entries dropped.
NonZeroVotes(l) ==
    [k \in {IdeaKey(i) : i \in {j \in 0..(Len(l) - 1) : l[j + 1] # 0}} |-> l[LastPart(k) + 1]]

\* C2: no stored keyed VoteSet holds a key whose value is 0.
C2_NoZeroStored ==
    \A c \in Codes : \A v \in DOMAIN classes[c].votes :
        IsDict(classes[c].votes[v]) =>
            \A k \in DOMAIN classes[c].votes[v].dict : classes[c].votes[v].dict[k] # 0

\* C3: a read that succeeds returns, for every voter stored as a list L, the
\* keyed mapping idea_<i> -> L[i] of the non-zero positions of L only, and
\* the store then holds that mapping at the voter's path.
C3_MigrationDropsZeros ==
    [][\A c \in Codes :
         ReadClass(c, NoFault) =>
            \A v \in ListVoters(c) :
                /\ ret'.data.votes[v] = PyDict(NonZeroVotes(classes[c].votes[v].list))
                /\ classes'[c].votes[v] = PyDict(NonZeroVotes(classes[c].votes[v].list))]_vars

\* A store call of get_data(c) fails under flt: the get, or the write-back
\* of a voter stored as a list.
ReadFailed(c, flt) ==
    \/ flt.rd # "ok"
    \/ \E v \in ListVoters(c) : flt.wb[v] # "ok"

Migrated(data) ==
    [data EXCEPT !.votes = [v \in DOMAIN data.votes |->
                              IF IsList(data.votes[v])
                              THEN PyDict(ObjectVotes(data.votes[v].list))
                              ELSE data.votes[v]]]

---------------------------------------------------------------------------
(* Claims about the Results View (SpecResults)                             *)

\* The voters of the record the Results View read whose VoteSet holds the
\* key idea_<i>.
KeyHolders(data, i) ==
    {v \in DOMAIN data.votes :
        IsDict(data.votes[v]) /\ IdeaKey(i) \in DOMAIN data.votes[v].dict}

\* The rating voter v holds at idea_<i>, 0 when v holds none.
HeldRating(data, v, i) ==
    IF v \in KeyHolders(data, i) THEN data.votes[v].dict[IdeaKey(i)] ELSE 0

\* C11: for the record the Results View read and every scenario index i,
\* num_votes is the number of voters whose VoteSet holds the key idea_<i>
\* (whatever the value stored there) and avg_score is the sum of the values
\* held there over num_votes; a scenario for which no voter holds the key
\* has avg_score 0 and num_votes 0.
C11_Aggregation ==
    [][last'.op = "Results" =>
         /\ Len(results_df') = Len(ret'.data.ideas)
         /\ \A n \in 1..Len(ret'.data.ideas) :
               /\ results_df'[n].num_votes = Cardinality(KeyHolders(ret'.data, n - 1))
               /\ IF KeyHolders(ret'.data, n - 1) = {}
                  THEN results_df'[n].avg_score = <<0, 1>>
                  ELSE results_df'[n].avg_score =
                          <<HeldRating(ret'.data, "Student1", n - 1)
                               + HeldRating(ret'.data, "Student2", n - 1)
                               + HeldRating(ret'.data, "TeamA", n - 1),
                            results_df'[n].num_votes>>]_vars

\* Three voters: two rate the first scenario 4 and 5, the third does not
\* rate it; the second scenario has no rating at all.
C11_Witness ==
    /\ last.op = "Results"
    /\ DOMAIN ret.data.votes = ResultVoters
    /\ Len(results_df) = 2
    /\ results_df[1].avg_score = <<9, 2>> /\ results_df[1].num_votes = 2
    /\ results_df[2].avg_score = <<0, 1>> /\ results_df[2].num_votes = 0

\* The fraction a is greater than the fraction b (denominators positive).
Greater(a, b) == a[1] * b[2] > b[1] * a[2]

\* C23: for the record the Results View read, the table is shown exactly
\* when some scenario has an avg_score other than 0, and the no-votes or
\* the no-scenarios message is shown otherwise; the table shown has one row
\* for every scenario of the record, idea_num being its index plus one, each
\* with the avg_score and num_votes computed for it, and no row has a
\* greater avg_score than a row above it: a scenario without votes is never
\* above one with a positive average.
C23_ResultsOrdering ==
    [][last'.op = "Results" =>
         LET n_ideas == Len(ret'.data.ideas)
             shown == last'.msg = ""
         IN  /\ shown <=> \E n \in 1..n_ideas : results_df'[n].avg_score[1] # 0
             /\ ~shown =>
                   /\ dataframe' = <<>>
                   /\ last'.msg = IF n_ideas = 0
                                  THEN "No scenarios have been submitted yet!"
                                  ELSE "No votes have been submitted yet!"
             /\ shown =>
                   /\ Len(dataframe') = n_ideas
                   /\ \A n \in 1..n_ideas :
                         /\ Cardinality({k \in 1..n_ideas : dataframe'[k].idea_num = n}) = 1
                         /\ \A k \in 1..n_ideas :
                               dataframe'[k].idea_num = n => dataframe'[k] = results_df'[n]
                   /\ \A k, l \in 1..n_ideas :
                         k < l =>
                            /\ ~Greater(dataframe'[l].avg_score, dataframe'[k].avg_score)
                            /\ ~(dataframe'[k].num_votes = 0
                                    /\ dataframe'[l].avg_score[1] > 0)]_vars

\* The table shows the second scenario, rated, above the first, which has
\* no vote.
C23_Witness ==
    /\ last.op = "Results" /\ last.msg = ""
    /\ Len(dataframe) = 2
    /\ dataframe[1].idea_num = 2 /\ dataframe[1].avg_score[1] > 0
    /\ dataframe[2].idea_num = 1 /\ dataframe[2].num_votes = 0

---------------------------------------------------------------------------
(* Claims about two sessions (SpecRace)                                    *)

\* The rating session s saved is in the store at its voter's path.
RatingStored(s) ==
    LET votes == classes[RaceCode].votes
        n == session_state[s].student_name
    IN  /\ n \in DOMAIN votes
        /\ IsDict(votes[n])
        /\ IdeaKey(inflight[s].vote[1]) \in DOMAIN votes[n].dict
        /\ votes[n].dict[IdeaKey(inflight[s].vote[1])] = inflight[s].vote[2]

\* C12: once the vote saves of the two sessions, which use different names
\* in one class, have both reported success, the ratings of both voters are
\* in the store, whatever the interleaving of their store calls.
C12_VotersNeverConflict ==
    (\A s \in RaceSessions : inflight[s].saved) =>
        \A s \in RaceSessions : RatingStored(s)

---------------------------------------------------------------------------
(* Claims about the application                                            *)

\* No list is stored in any state of Spec: the application writes keyed
\* VoteSets only, so that no read of Spec runs a write-back.
NoListStored ==
    \A c \in Codes : \A v \in DOMAIN classes[c].votes : IsDict(classes[c].votes[v])

\* C1: every row of the Voting View of a session authenticated to a class
\* shows a scenario that was written under that class.
C1_ClassIsolation ==
    \A s \in Sessions :
        (session_state[s].authenticated /\ page[s].rows
            /\ HasKey(session_state[s].randomized_ideas)) =>
            \A r \in 1..Len(session_state[s].randomized_ideas.list) :
                session_state[s].randomized_ideas.list[r][2].origin
                    = session_state[s].class_code

\* C4: every key idea_<k> of a stored VoteSet of a class has k below the
\* number of scenarios of that class.
C4_VoteKeysInRange ==
    \A c \in Codes : \A v \in DOMAIN classes[c].votes :
        IsDict(classes[c].votes[v]) =>
            \A key \in DOMAIN classes[c].votes[v].dict :
                LastPart(key) < Len(classes[c].ideas)

\* The password the teacher controls are to ask for.
ExpectedPassword == IF secrets = NoSecret THEN "teacherpass" ELSE secrets

\* The handler of session s showed msg and changed neither the registry,
\* nor a class, nor the session's authenticated / class_code.
Rejected(s, msg) ==
    /\ last'.msg = msg
    /\ UNCHANGED <<class_access_codes, classes>>
    /\ session_state'[s].authenticated = session_state[s].authenticated
    /\ session_state'[s].class_code = session_state[s].class_code

\* Create Class succeeded: the class is registered and the session is in it.
Created(s, code, name) ==
    /\ last'.msg = "Created and joined class"
    /\ code \in DOMAIN class_access_codes' /\ class_access_codes'[code] = name
    /\ session_state'[s].authenticated /\ session_state'[s].class_code = code

\* Reset All Data succeeded: the class of the session holds the empty record.
WasReset(s) ==
    /\ last'.msg = "Data reset successfully!"
    /\ classes'[session_state[s].class_code] = EmptyRecord

\* C5 as claimed: a wrong password is rejected with an error and no change;
\* with the exact password Create Class (name and code non-empty) and Reset
\* All Data succeed.
C5_TeacherGateAlways ==
    [][\A s \in Sessions :
         /\ (last'.op = "Create Class" /\ last'.s = s) =>
              \A pw \in Passwords, n \in ClassNames \cup {""}, c \in NewCodes \cup {""},
                 kr \in CaughtKinds, kw \in WriteKinds(apps), ks \in CaughtKinds :
                 /\ (pw # ExpectedPassword /\ CreateClassWith(s, pw, n, c, kr, kw, ks))
                       => Rejected(s, "Incorrect teacher password")
                 /\ (pw = ExpectedPassword /\ n # "" /\ c # ""
                       /\ CreateClassWith(s, pw, n, c, kr, kw, ks))
                       => Created(s, c, n)
         /\ (last'.op = "Reset All Data" /\ last'.s = s) =>
              \A pw \in Passwords, k \in CaughtKinds :
                 /\ (pw # ExpectedPassword /\ ResetAllDataWith(s, pw, k))
                       => Rejected(s, "Incorrect password")
                 /\ (pw = ExpectedPassword /\ ResetAllDataWith(s, pw, k))
                       => WasReset(s)]_vars

\* C5 amended: a wrong password is rejected with an error and no change;
\* with the exact password Create Class (name and code non-empty) succeeds
\* when the write of the registry succeeds, and Reset All Data succeeds when
\* the write of the class succeeds.
C5_TeacherGate ==
    [][\A s \in Sessions :
         /\ (last'.op = "Create Class" /\ last'.s = s) =>
              \A pw \in Passwords, n \in ClassNames \cup {""}, c \in NewCodes \cup {""},
                 kr \in CaughtKinds, kw \in WriteKinds(apps), ks \in CaughtKinds :
                 /\ (pw # ExpectedPassword /\ CreateClassWith(s, pw, n, c, kr, kw, ks))
                       => Rejected(s, "Incorrect teacher password")
                 /\ (pw = ExpectedPassword /\ n # "" /\ c # "" /\ kw = "ok"
                       /\ CreateClassWith(s, pw, n, c, kr, kw, ks))
                       => Created(s, c, n)
         /\ (last'.op = "Reset All Data" /\ last'.s = s) =>
              \A pw \in Passwords, k \in CaughtKinds :
                 /\ (pw # ExpectedPassword /\ ResetAllDataWith(s, pw, k))
                       => Rejected(s, "Incorrect password")
                 /\ (pw = ExpectedPassword /\ k = "ok" /\ ResetAllDataWith(s, pw, k))
                       => WasReset(s)]_vars

\* Reset All Data was refused for its password in a class that holds scenarios.
C5_Witness ==
    /\ last.op = "Reset All Data" /\ last.msg = "Incorrect password"
    /\ \E s \in Sessions :
          /\ last.s = s /\ session_state[s].authenticated
          /\ classes[session_state[s].class_code].ideas # <<>>

\* C6: Join Class authenticates the session to the code typed exactly when
\* the code is a key of the registry as read (the empty mapping when the
\* read fails); otherwise the session stays unauthenticated, its class_code
\* is unchanged, an error is shown and nothing is written.
C6_JoinCheck ==
    [][\A s \in Sessions :
         (last'.op = "Join Class" /\ last'.s = s) =>
            \A code \in Codes \cup {""}, k \in CaughtKinds :
               JoinClassWith(s, code, k) =>
                  IF k = "ok" /\ code \in DOMAIN class_access_codes
                  THEN /\ session_state'[s].authenticated
                       /\ session_state'[s].class_code = code
                  ELSE /\ ~session_state'[s].authenticated
                       /\ Rejected(s, "Invalid class code. Please try again.")]_vars

\* A join was refused while the registry holds a class.
C6_Witness ==
    /\ last.op = "Join Class" /\ last.msg = "Invalid class code. Please try again."
    /\ class_access_codes # EmptyDict
    /\ \E s \in Sessions : last.s = s /\ ~session_state[s].authenticated

\* The end-to-end session is over: Student2's rating was saved.
E2EDone ==
    /\ last.op = "Submit Vote" /\ last.msg = "Vote submitted for this scenario!"
    /\ session_state[1].student_name = "Student2"

\* C8: after the end-to-end session the Results View gives scenario 1 the
\* rating sum 9 over 2 votes, scenario 2 the sum 1 over 1 vote, lists
\* scenario 1 before scenario 2, and names exactly Student1 and Student2 as
\* participants.
C8_EndToEnd ==
    E2EDone =>
        /\ Len(Results(ResultsData(E2ECode))) = 2
        /\ Results(ResultsData(E2ECode))[1].sum = 9
        /\ Results(ResultsData(E2ECode))[1].num_votes = 2
        /\ Results(ResultsData(E2ECode))[2].sum = 1
        /\ Results(ResultsData(E2ECode))[2].num_votes = 1
        /\ TableShown(Results(ResultsData(E2ECode)))
        /\ SortedOrders(Results(ResultsData(E2ECode))) = {<<1, 2>>}
        /\ Participation(ResultsData(E2ECode)) = {"Student1", "Student2"}

\* The end-to-end session ran to its end, the two scenarios in the store.
C8_Witness ==
    /\ E2EDone
    /\ Len(classes[E2ECode].ideas) = 2
    /\ classes[E2ECode].ideas[1].submitted_by = "TeamA"
    /\ classes[E2ECode].ideas[2].submitted_by = "TeamB"

\* The removal of the vote on scenario i by session s succeeded.
RemovalDone(s, i) ==
    /\ last'.s = s
    /\ \/ /\ last'.op = "Remove Vote" /\ last'.msg = "Vote removed!"
          /\ \E flt \in AppFaults, k \in WriteKinds(apps) : RemoveVoteAt(s, i, flt, k)
       \/ /\ last'.op = "Slider" /\ last'.msg = "Vote removed"
          /\ \E flt \in AppFaults, k \in WriteKinds(apps) :
                SliderChangeWith(s, i, 0, flt, k)

\* C9: after a successful removal of the vote of a participant on scenario
\* i (the slider set to 0 with auto-save, or Remove Vote), the key idea_<i>
\* is absent from the participant's stored VoteSet, the other keys are as
\* they were, and the Results aggregation of scenario i does not count the
\* participant.
C9_VoteRemoval ==
    [][\A s \in Sessions, i \in 0..(MaxIdeas - 1) :
         RemovalDone(s, i) =>
            LET c == session_state[s].class_code
                n == session_state[s].student_name
            IN  /\ IdeaKey(i) \in DOMAIN classes[c].votes[n].dict
                /\ n \in DOMAIN classes'[c].votes
                /\ IsDict(classes'[c].votes[n])
                /\ IdeaKey(i) \notin DOMAIN classes'[c].votes[n].dict
                /\ DOMAIN classes'[c].votes[n].dict
                      = DOMAIN classes[c].votes[n].dict \ {IdeaKey(i)}
                /\ \A key \in DOMAIN classes'[c].votes[n].dict :
                      classes'[c].votes[n].dict[key] = classes[c].votes[n].dict[key]
                /\ n \notin CountedVoters(GetData(classes', c, NoFault).data, i)]_vars

\* A vote was removed with Remove Vote and another vote of the same
\* participant stays in the store.
C9_Witness ==
    /\ last.op = "Remove Vote" /\ last.msg = "Vote removed!"
    /\ \E s \in Sessions :
          /\ last.s = s
          /\ session_state[s].student_name
                \in DOMAIN classes[session_state[s].class_code].votes
          /\ classes[session_state[s].class_code]
                .votes[session_state[s].student_name].dict # EmptyDict

\* Clear All My Votes succeeded in the step.
Cleared(s) ==
    /\ last'.s = s /\ last'.op = "Clear All My Votes"
    /\ last'.msg = "All your votes have been cleared!"

\* The caches after a change of the name to n: none when the Voting View
\* shows no rows, and otherwise a new order of the scenarios of the class
\* and the votes the store holds for n.
FreshCaches(s, n) ==
    LET c == session_state[s].class_code
        data == GetData(classes', c, NoFault).data
    IN  IF page'[s].rows
        THEN /\ \E sh \in Shuffles :
                   session_state'[s].randomized_ideas
                      = PyList(Shuffled(IdeasWithIndices(data.ideas), sh))
             /\ session_state'[s].current_votes = PyDict(InitialVotes(data, n))
        ELSE /\ session_state'[s].randomized_ideas = Absent
             /\ session_state'[s].current_votes = Absent

\* C10 as claimed: while the display name of a session is unchanged, the
\* order its Voting View shows stays what it is, whatever the interaction;
\* a change of the name discards the cached order and the cached votes.
C10_StableOrderAlways ==
    [][\A s \in Sessions :
         /\ (HasKey(session_state[s].randomized_ideas)
               /\ session_state'[s].student_name = session_state[s].student_name)
              => session_state'[s].randomized_ideas = session_state[s].randomized_ideas
         /\ (last'.op = "Change Name" /\ last'.s = s) =>
              \A n \in Names \cup {""} : ChangeNameTo(s, n) => FreshCaches(s, n)]_vars

\* C10 amended: while the display name of a session is unchanged, the order
\* its Voting View shows stays what it is, whatever the interaction other
\* than a successful Clear All My Votes (which discards the cached order); a
\* change of the name discards the cached order and the cached votes.
C10_StableOrder ==
    [][\A s \in Sessions :
         /\ (HasKey(session_state[s].randomized_ideas)
               /\ session_state'[s].student_name = session_state[s].student_name
               /\ ~Cleared(s))
              => session_state'[s].randomized_ideas = session_state[s].randomized_ideas
         /\ (last'.op = "Change Name" /\ last'.s = s) =>
              \A n \in Names \cup {""} : ChangeNameTo(s, n) => FreshCaches(s, n)]_vars

\* The Voting View shows all the scenarios again, in the cached order, after
\* a vote was saved.
C10_Witness ==
    /\ last.op \in {"Submit Vote", "Slider"}
    /\ \E s \in Sessions :
          /\ last.s = s /\ page[s].rows
          /\ Len(session_state[s].randomized_ideas.list) = MaxIdeas
          /\ session_state[s].current_votes.dict # EmptyDict

\* C13: no handler ends in an exception nobody caught: every failure of a
\* store call is caught at the call, in both transport modes.
C13_NoUnhandledFailure == last.msg # Uncaught

\* C14: a step of an unauthenticated session is Join Class or Create Class,
\* an unauthenticated session is shown no view of a class, and Switch Class
\* sets authenticated to false and class_code to '' and leaves the name and
\* the other keys of the session as they were.
C14_AccessGating ==
    [][\A s \in Sessions :
         /\ (last'.s = s /\ ~session_state[s].authenticated)
               => last'.op \in {"Join Class", "Create Class"}
         /\ ~session_state'[s].authenticated => ~page'[s].rows
         /\ (last'.s = s /\ last'.op = "Switch Class") =>
               /\ ~session_state'[s].authenticated
               /\ session_state'[s].class_code = ""
               /\ session_state'[s] = [session_state[s] EXCEPT !.authenticated = FALSE,
                                                                !.class_code = ""]]_vars

\* A session that had rated scenarios has switched class: it is
\* unauthenticated and still holds its name and its caches.
C14_Witness ==
    /\ last.op = "Switch Class"
    /\ \E s \in Sessions :
          /\ last.s = s /\ ~session_state[s].authenticated
          /\ session_state[s].student_name # ""
          /\ HasKey(session_state[s].randomized_ideas)
          /\ HasKey(session_state[s].current_votes)
          /\ session_state[s].current_votes.dict # EmptyDict

\* The scenarios old are the first scenarios of new, unchanged.
IsPrefix(old, new) ==
    IF Len(old) <= Len(new) THEN SubSeq(new, 1, Len(old)) = old ELSE FALSE

\* C15: in a step that is neither a teacher reset nor a class creation, the
\* stored ideas of every class only grow by appending: every entry stays at
\* its index, unchanged.
C15_AppendOnly ==
    [][last'.op \notin {"Reset All Data", "Create Class"} =>
         \A c \in Codes : IsPrefix(classes[c].ideas, classes'[c].ideas)]_vars

\* C16: a Create Class that succeeds leaves the registry as it was stored
\* plus the entry class_code -> class_name, the record of class_code empty,
\* the record of every other class as it was, and the session authenticated
\* to class_code; when the write of the registry fails the session stays
\* unauthenticated and no class record is written.
C16_CreateEffect ==
    [][\A s \in Sessions :
         (last'.op = "Create Class" /\ last'.s = s) =>
            \A pw \in Passwords, n \in ClassNames, c \in NewCodes,
               kr \in CaughtKinds, kw \in WriteKinds(apps), ks \in CaughtKinds :
               CreateClassWith(s, pw, n, c, kr, kw, ks) =>
                  /\ last'.msg = "Created and joined class" =>
                        /\ class_access_codes' = DictSet(class_access_codes, c, n)
                        /\ classes'[c] = EmptyRecord
                        /\ \A o \in Codes \ {c} : classes'[o] = classes[o]
                        /\ session_state'[s].authenticated
                        /\ session_state'[s].class_code = c
                  /\ (pw = ExpectedPassword /\ kw # "ok") =>
                        /\ ~session_state'[s].authenticated
                        /\ classes' = classes]_vars

\* C17: a Create Class whose class_code is already a key of the registry is
\* refused: the session stays unauthenticated, and neither the registry
\* entry nor the record of the class is overwritten.
C17_DuplicateCode ==
    [][\A s \in Sessions :
         (last'.op = "Create Class" /\ last'.s = s) =>
            \A pw \in Passwords, n \in ClassNames, c \in NewCodes,
               kr \in CaughtKinds, kw \in WriteKinds(apps), ks \in CaughtKinds :
               (c \in DOMAIN class_access_codes
                  /\ CreateClassWith(s, pw, n, c, kr, kw, ks)) =>
                  /\ last'.msg # "Created and joined class"
                  /\ ~session_state'[s].authenticated
                  /\ class_access_codes' = class_access_codes
                  /\ classes'[c] = classes[c]]_vars

\* C18: Submit Scenario with an empty name shows the group-name error, with
\* a name and an empty text the scenario error, and in both cases stores
\* nothing; with a name, a text and a write that succeeds, the stored ideas
\* are the ideas the handler read with one entry appended, which holds the
\* text and, as submitted_by, the name of the session.
C18_SubmissionValidation ==
    [][\A s \in Sessions :
         (last'.op = "Submit Scenario" /\ last'.s = s) =>
            \A new_idea \in Texts \cup {""}, flt \in AppFaults, k \in CaughtKinds :
               SubmitScenarioWith(s, new_idea, flt, k) =>
                  LET c == session_state[s].class_code
                      name == session_state[s].student_name
                      read == IF flt.rd = "ok" THEN classes[c].ideas ELSE <<>>
                  IN  /\ name = "" =>
                            /\ last'.msg = "Please enter your group name first!"
                            /\ classes' = classes
                      /\ (name # "" /\ new_idea = "") =>
                            /\ last'.msg = "Please enter a scenario!"
                            /\ classes' = classes
                      /\ (name # "" /\ new_idea # "" /\ k = "ok") =>
                            /\ last'.msg = "Scenario submitted successfully!"
                            /\ Len(classes'[c].ideas) = Len(read) + 1
                            /\ IsPrefix(read, classes'[c].ideas)
                            /\ classes'[c].ideas[Len(read) + 1].idea = new_idea
                            /\ classes'[c].ideas[Len(read) + 1].submitted_by = name]_vars

\* A second scenario was submitted and is stored behind the first.
C18_Witness ==
    /\ last.op = "Submit Scenario" /\ last.msg = "Scenario submitted successfully!"
    /\ \E s \in Sessions :
          /\ last.s = s
          /\ Len(classes[session_state[s].class_code].ideas) = 2
          /\ classes[session_state[s].class_code].ideas[2].submitted_by
                = session_state[s].student_name

\* C19: save_vote(idea_key, rating) under Submit Vote returns true or false;
\* it leaves the ideas and the votes of every other voter as they were; when
\* its write succeeds, the stored votes of the participant are the votes it
\* re-read with idea_key set to rating, the cache holds rating at idea_key
\* and true is returned (the success message); when its write fails, the
\* stored votes and the cache are unchanged and false is returned (the
\* failure message).
C19_SaveVoteEffect ==
    [][\A s \in Sessions :
         (last'.op = "Submit Vote" /\ last'.s = s) =>
            \A i \in 0..(MaxIdeas - 1), new_rating \in Ratings,
               flt \in AppFaults, k \in WriteKinds(apps) :
               SubmitVoteWith(s, i, new_rating, flt, k) =>
                  LET c == session_state[s].class_code
                      name == session_state[s].student_name
                      idea_key == IdeaKey(i)
                      read == MyVotes(GetData(classes, c, flt).data, name)
                  IN  /\ last'.msg # Uncaught
                      /\ classes'[c].ideas = classes[c].ideas
                      /\ \A o \in Voters \ {name} :
                            /\ (o \in DOMAIN classes'[c].votes)
                                  <=> (o \in DOMAIN classes[c].votes)
                            /\ MyVotes(classes'[c], o) = MyVotes(classes[c], o)
                      /\ k = "ok" =>
                            /\ last'.msg = "Vote submitted for this scenario!"
                            /\ classes'[c].votes[name]
                                  = PyDict(DictSet(read, idea_key, new_rating))
                            /\ idea_key \in DOMAIN session_state'[s].current_votes.dict
                            /\ session_state'[s].current_votes.dict[idea_key] = new_rating
                      /\ k # "ok" =>
                            /\ last'.msg = "Failed to submit vote. Please try again."
                            /\ MyVotes(classes'[c], name) = MyVotes(classes[c], name)
                            /\ session_state'[s].current_votes
                                  = session_state[s].current_votes]_vars

\* C20: with auto-save off, a run started by moving a slider writes nothing
\* to the store and leaves the cached votes as they were; on every row, for
\* every displayed value, Submit Vote is enabled exactly when the value is in
\* 1..5 and differs from the cached vote of the scenario (a scenario without
\* a cached vote differs from every value), and Remove Vote is offered
\* exactly when the value is 0 and the scenario has a cached vote; a Submit
\* Vote or Remove Vote step is taken only where its button is so enabled.
C20_ManualMode ==
    [][\A s \in Sessions :
         (session_state[s].authenticated /\ page[s].rows /\ ~session_state[s].auto_save) =>
            LET cv == session_state[s].current_votes.dict
                Differs(key, r) == IF key \in DOMAIN cv THEN cv[key] # r ELSE TRUE
            IN  /\ (last'.op = "Refresh" /\ last'.s = s) =>
                      /\ classes' = classes
                      /\ class_access_codes' = class_access_codes
                      /\ session_state'[s].current_votes = session_state[s].current_votes
                /\ \A i \in RowIndices(s), r \in 0..MaxRating :
                      /\ SubmitVoteEnabled(cv, IdeaKey(i), r)
                            <=> (r \in 1..MaxRating /\ Differs(IdeaKey(i), r))
                      /\ RemoveVoteOffered(cv, IdeaKey(i), r)
                            <=> (r = 0 /\ IdeaKey(i) \in DOMAIN cv)
                /\ (last'.op = "Submit Vote" /\ last'.s = s) =>
                      \E i \in RowIndices(s), r \in 1..MaxRating :
                         /\ Differs(IdeaKey(i), r)
                         /\ \E flt \in AppFaults, k \in WriteKinds(apps) :
                               SubmitVoteWith(s, i, r, flt, k)
                /\ (last'.op = "Remove Vote" /\ last'.s = s) =>
                      \E i \in RowIndices(s) :
                         /\ IdeaKey(i) \in DOMAIN cv
                         /\ \E flt \in AppFaults, k \in WriteKinds(apps) :
                               RemoveVoteAt(s, i, flt, k)]_vars

\* A slider was moved with auto-save off on a page whose row has a cached
\* vote: Submit Vote is disabled at the cached value, Remove Vote is offered
\* at 0.
C20_Witness ==
    /\ last.op = "Refresh"
    /\ \E s \in Sessions :
          /\ last.s = s
          /\ session_state[s].authenticated /\ page[s].rows
          /\ ~session_state[s].auto_save
          /\ \E i \in RowIndices(s) :
                IdeaKey(i) \in DOMAIN session_state[s].current_votes.dict

\* C21: with auto-save on, on_slider_change of the row of scenario i with the
\* new value v calls save_vote exactly when v is in 1..5 and differs from the
\* cached vote of idea_<i> (or none is cached), starts the removal exactly
\* when v = 0 and idea_<i> has a cached vote, and otherwise does nothing: the
\* run of a slider that does nothing leaves the store and the cached votes
\* as they were; a slider step is the save_vote, or the removal, of the key
\* idea_<i> of the row whose slider changed.
C21_AutoSave ==
    [][\A s \in Sessions :
         (session_state[s].authenticated /\ page[s].rows /\ session_state[s].auto_save) =>
            LET ss == session_state[s]
                cv == ss.current_votes.dict
                Differs(key, v) == IF key \in DOMAIN cv THEN cv[key] # v ELSE TRUE
                Act(i, v) == SliderAction(cv, IdeaKey(LastPart(SliderKey(i))), v)
            IN  /\ \A i \in RowIndices(s), v \in 0..MaxRating :
                      /\ Act(i, v) = "save"
                            <=> (v \in 1..MaxRating /\ Differs(IdeaKey(i), v))
                      /\ Act(i, v) = "remove"
                            <=> (v = 0 /\ IdeaKey(i) \in DOMAIN cv)
                      /\ Act(i, v) \in {"save", "remove", "none"}
                /\ (last'.op = "Refresh" /\ last'.s = s) =>
                      /\ classes' = classes
                      /\ class_access_codes' = class_access_codes
                      /\ session_state'[s].current_votes = ss.current_votes
                /\ (last'.op = "Slider" /\ last'.s = s) =>
                      \A i \in RowIndices(s), v \in Ratings :
                         Act(i, v) # "none" =>
                         \A flt \in AppFaults, k \in WriteKinds(apps) :
                         SliderChangeWith(s, i, v, flt, k) =>
                            \E r \in {IF v = 0
                                       THEN RemoveVote(apps, ss, classes, ss.student_name,
                                                       IdeaKey(i), flt, k)
                                       ELSE SaveVote(apps, ss, classes, ss.student_name,
                                                     IdeaKey(i), v, flt, k)} :
                               /\ v = 0 => IdeaKey(i) \in DOMAIN cv
                               /\ v # 0 => (v \in 1..MaxRating /\ Differs(IdeaKey(i), v))
                               /\ r.raised <=> last'.msg = Uncaught
                               /\ classes' = r.classes
                               /\ session_state'[s].current_votes = r.ss.current_votes]_vars

\* The slider of the second scenario saved a vote for it with auto-save on,
\* the first scenario having none.
C21_Witness ==
    /\ last.op = "Slider" /\ last.msg = "Vote automatically saved"
    /\ \E s \in Sessions :
          /\ last.s = s
          /\ session_state[s].auto_save
          /\ DOMAIN session_state[s].current_votes.dict = {IdeaKey(1)}
          /\ DOMAIN classes[session_state[s].class_code]
                       .votes[session_state[s].student_name].dict = {IdeaKey(1)}

---------------------------------------------------------------------------
(* Claims about a class in use (SpecClear)                                 *)

\* C22: a Clear All My Votes whose delete succeeds leaves no votes of the
\* participant in the class, leaves the votes of every other voter, the
\* ideas and the other classes as they were, empties current_votes and
\* discards the cached order (the run that follows caches a new shuffle of
\* the ideas when it shows the rows); a Clear All My Votes whose delete
\* fails changes neither the store nor current_votes nor the cached order.
C22_ClearAll ==
    [][\A s \in Sessions :
         (last'.op = "Clear All My Votes" /\ last'.s = s) =>
            \A k \in WriteKinds(apps) :
               ClearAllVotesWith(s, k) =>
                  LET c == session_state[s].class_code
                      name == session_state[s].student_name
                  IN  /\ k = "ok" =>
                            /\ name \notin DOMAIN classes'[c].votes
                            /\ DOMAIN classes'[c].votes = DOMAIN classes[c].votes \ {name}
                            /\ \A o \in DOMAIN classes'[c].votes :
                                  classes'[c].votes[o] = classes[c].votes[o]
                            /\ classes'[c].ideas = classes[c].ideas
                            /\ \A o \in Codes \ {c} : classes'[o] = classes[o]
                            /\ session_state'[s].current_votes = PyDict(EmptyDict)
                            /\ IF page'[s].rows
                               THEN \E sh \in Shuffles :
                                       session_state'[s].randomized_ideas
                                          = PyList(Shuffled(IdeasWithIndices(classes'[c].ideas), sh))
                               ELSE session_state'[s].randomized_ideas = Absent
                      /\ k # "ok" =>
                            /\ classes' = classes
                            /\ session_state'[s].current_votes = session_state[s].current_votes
                            /\ session_state'[s].randomized_ideas
                                  = session_state[s].randomized_ideas]_vars

\* Student1 cleared the votes the class held for them; those of Student2
\* are still there.
C22_Witness ==
    /\ last.op = "Clear All My Votes" /\ last.msg = "All your votes have been cleared!"
    /\ \E s \in Sessions :
          /\ last.s = s
          /\ session_state[s].student_name = "Student1"
          /\ DOMAIN classes[session_state[s].class_code].votes = {"Student2"}
          /\ Len(classes[session_state[s].class_code].ideas) = 2
          /\ session_state[s].current_votes = PyDict(EmptyDict)

---------------------------------------------------------------------------
(* Claims about the application, continued                                 *)

\* C24: when the run of a session has just shown the rows of the Voting
\* View, the rows are the scenarios of the ideas list of its class, each
\* once and with its own zero-based index.
C24_VotingViewComplete ==
    \A s \in Sessions :
        (last.s = s /\ session_state[s].authenticated /\ page[s].rows) =>
            /\ Len(session_state[s].randomized_ideas.list)
                  = Len(classes[session_state[s].class_code].ideas)
            /\ {session_state[s].randomized_ideas.list[r] :
                   r \in 1..Len(session_state[s].randomized_ideas.list)}
                  = {<<i - 1, classes[session_state[s].class_code].ideas[i]>> :
                        i \in 1..Len(classes[session_state[s].class_code].ideas)}

\* C25: when the run of a session has just shown the rows of the Voting
\* View, a row that shows "Your current rating: N/5" for scenario i has the
\* rating N stored at votes[student_name][idea_<i>] of the class of the
\* session, and a row that shows "No vote submitted yet" has nothing stored
\* there.
C25_CacheCoherence ==
    \A s \in Sessions :
        (last.s = s /\ session_state[s].authenticated /\ page[s].rows) =>
            \A i \in RowIndices(s) :
               LET cv == session_state[s].current_votes.dict
                   votes == classes[session_state[s].class_code].votes
                   name == session_state[s].student_name
                   stored == IF name \in DOMAIN votes THEN MyVotes(
                                   classes[session_state[s].class_code], name)
                             ELSE EmptyDict
               IN  IF IdeaKey(i) \in DOMAIN cv
                   THEN /\ IdeaKey(i) \in DOMAIN stored
                        /\ stored[IdeaKey(i)] = cv[IdeaKey(i)]
                   ELSE IdeaKey(i) \notin DOMAIN stored

\* C26: a removal of the vote on scenario i (Remove Vote, or the slider moved
\* to 0 with auto-save on) in which no store call fails leaves the key
\* idea_<i> neither in the stored votes of the participant nor in
\* current_votes, also when the store did not hold the key any more.
C26_RemoveConverges ==
    [][\A s \in Sessions :
         (last'.s = s /\ last'.op \in {"Remove Vote", "Slider"}) =>
            \A i \in RowIndices(s) :
               (\/ RemoveVoteAt(s, i, NoFault, "ok")
                \/ SliderChangeWith(s, i, 0, NoFault, "ok")) =>
                  /\ IdeaKey(i) \notin DOMAIN session_state'[s].current_votes.dict
                  /\ IdeaKey(i) \notin
                        DOMAIN MyVotes(classes'[session_state[s].class_code],
                                       session_state[s].student_name)]_vars

---------------------------------------------------------------------------
(* Claims about a submission beside a vote (SpecSubmit)                    *)

\* C27: the rating a session saved with success stays in the store at its
\* voter's path, whatever the interleaving of the store calls of its save
\* with those of another session's Submit Scenario: the write of the whole
\* record does not erase it.
C27_VotesSurviveSubmission ==
    \A s \in RaceSessions : inflight[s].saved => RatingStored(s)

---------------------------------------------------------------------------
(* Claims about failed reads and about authentication                      *)

\* C28: a handler of one session whose read of the store fails and whose
\* write succeeds loses nothing that was stored: Submit Scenario keeps the
\* ideas and the votes of the class, save_vote keeps the other ratings of
\* the participant, Create Class keeps the registry entries of the other
\* classes.
C28_FailedReadKeepsData ==
    [][\A s \in Sessions :
         LET c == session_state[s].class_code
             name == session_state[s].student_name
         IN  /\ (last'.s = s /\ last'.op = "Submit Scenario"
                   /\ last'.msg = "Scenario submitted successfully!") =>
                   /\ IsPrefix(classes[c].ideas, classes'[c].ideas)
                   /\ classes'[c].votes = classes[c].votes
             /\ (last'.s = s /\ last'.op \in {"Submit Vote", "Slider"}) =>
                   \A i \in RowIndices(s), new_rating \in 1..MaxVote, flt \in AppFaults :
                      (\/ SubmitVoteWith(s, i, new_rating, flt, "ok")
                       \/ SliderChangeWith(s, i, new_rating, flt, "ok")) =>
                         \A key \in DOMAIN MyVotes(classes[c], name) \ {IdeaKey(i)} :
                            /\ key \in DOMAIN MyVotes(classes'[c], name)
                            /\ MyVotes(classes'[c], name)[key] = MyVotes(classes[c], name)[key]
             /\ (last'.s = s /\ last'.op = "Create Class"
                   /\ last'.msg = "Created and joined class") =>
                   \A o \in DOMAIN class_access_codes :
                      o # session_state'[s].class_code =>
                         /\ o \in DOMAIN class_access_codes'
                         /\ class_access_codes'[o] = class_access_codes[o]]_vars

\* C29: a session is authenticated exactly when its class_code is not
\* empty; a step that authenticates it is a Join Class with a code that is a
\* key of the registry at that moment, or a Create Class that has written
\* the code to the registry; and its class_code does not change while it
\* stays authenticated.
C29_Authentication ==
    [][\A s \in Sessions :
         /\ session_state[s].authenticated <=> session_state[s].class_code # ""
         /\ session_state'[s].authenticated <=> session_state'[s].class_code # ""
         /\ (~session_state[s].authenticated /\ session_state'[s].authenticated) =>
               /\ last'.s = s
               /\ \/ /\ last'.op = "Join Class"
                     /\ session_state'[s].class_code \in DOMAIN class_access_codes
                  \/ /\ last'.op = "Create Class"
                     /\ session_state'[s].class_code \in DOMAIN class_access_codes'
         /\ (session_state[s].authenticated /\ session_state'[s].authenticated) =>
               session_state'[s].class_code = session_state[s].class_code]_vars

\* A session joined a class of the registry after it had left it.
C29_Witness ==
    /\ last.op = "Join Class"
    /\ \E s \in Sessions :
          /\ last.s = s
          /\ session_state[s].authenticated
          /\ session_state[s].class_code \in DOMAIN class_access_codes

===========================================================================
